---------------------------- MODULE Spec2Model ----------------------------
(***************************************************************************)
(* The write paths of quicksell_app/serializers.py: Location.create and    *)
(* Location.update, Profile.update, User.create, Listing.create and        *)
(* Listing.update, Chat.create, over the tables of quicksell_app.models.   *)
(*                                                                         *)
(* A table is a set of rows.  Every row carries its primary key (id) and   *)
(* the transaction that wrote it (tx): Committed, or the request whose     *)
(* open transaction holds the row.  A request sees the committed rows and  *)
(* its own (READ COMMITTED).                                               *)
(***************************************************************************)
EXTENDS Integers, FiniteSets, Sequences, TLC

VARIABLES locations, devices, users, profiles, listings, chats,
          nullable, last, pc, req

vars == <<locations, devices, users, profiles, listings, chats,
          nullable, last, pc, req>>

tables == <<locations, devices, users, profiles, listings, chats>>

-----------------------------------------------------------------------------
(* Input values. *)

FcmIds    == {"fcm1", "fcm2"}
Emails    == {"a@x", "b@x"}
Passwords == {"pw1", "pw2"}
Names     == {"Ann", "Bob"}
Coords    == {"1.0, 2.0", "3.0, 4.0"}
Addresses == {"Elm St"}
Titles    == {"bike", "lamp"}
Procs     == {"r1", "r2"}

(* Point or None, as validated_data.pop('coordinates', None) yields it. *)
NoCoord   == "None"
(* A key of the payload that is absent (partial update). *)
Absent    == "absent"
(* Column defaults of a freshly inserted row. *)
Blank     == ""
(* A null foreign key / no object. *)
None      == 0
Committed == "C"

(* Bounds of the model. *)
MaxFails    == 1
MaxListings == 1
MaxChats    == 2

-----------------------------------------------------------------------------
(* Storage. *)

Visible(rows, t) == {r \in rows : r.tx \in {Committed, t}}

FreshId(rows) ==
    CHOOSE i \in 1..(Cardinality(rows) + 1) :
        /\ \A r \in rows : r.id # i
        /\ \A j \in 1..(i - 1) : \E r \in rows : r.id = j

Row(rows, id) == CHOOSE r \in rows : r.id = id

Replace(rows, old, new) == (rows \ {old}) \cup {new}


-----------------------------------------------------------------------------
(* Payloads (validated_data). *)

NoPayload == [present |-> FALSE, coordinates |-> NoCoord, address |-> Absent]

LocationData ==
    [present : {TRUE}, coordinates : Coords \cup {NoCoord},
     address : Addresses \cup {Absent}]

(* if location_data := validated_data.pop('location', None): a missing key *)
(* and an empty mapping are both falsy.                                    *)
Truthy(data) ==
    data.present /\ ~(data.coordinates = NoCoord /\ data.address = Absent)

Result(rows, id, err) == [rows |-> rows, id |-> id, err |-> err]

-----------------------------------------------------------------------------
(* Location *)

NewLocation(locs, coords, t) ==
    [id |-> FreshId(locs), coordinates |-> coords, address |-> Blank, tx |-> t]

(* models.Location.objects.get_or_create(coordinates=coords), run by t.    *)
(* A lookup for None matches the rows whose coordinates are NULL; the      *)
(* insert of a NULL coordinate fails when the column is NOT NULL.          *)
LocationGetOrCreate(locs, coords, t) ==
    LET found == {l \in Visible(locs, t) : l.coordinates = coords} IN
    IF found # {}
    THEN IF Cardinality(found) = 1
         THEN Result(locs, (CHOOSE l \in found : TRUE).id, "ok")
         ELSE Result(locs, None, "MultipleObjectsReturned")
    ELSE IF coords = NoCoord /\ ~nullable
         THEN Result(locs, None, "IntegrityError")
         ELSE LET new == NewLocation(locs, coords, t) IN
              Result(locs \cup {new}, new.id, "ok")

(* ModelSerializer.update(location, validated_data) once the coordinates   *)
(* have been popped: the remaining present fields are set, then save().    *)
LocationSave(locs, id, data) ==
    LET old == Row(locs, id) IN
    IF data.address = Absent THEN locs
    ELSE Replace(locs, old, [old EXCEPT !.address = data.address])

LocationCreate(locs, data, t) ==
    LET g == LocationGetOrCreate(locs, data.coordinates, t) IN
    IF g.err # "ok" THEN Result(locs, None, g.err)
    ELSE Result(LocationSave(g.rows, g.id, data), g.id, "ok")

(* The comparison inverted. *)
CoordsSame(location, coords) == location.coordinates = coords

(* if location.coordinates != coords *)
CoordsDiffer(location, coords) == location.coordinates # coords

(* An update that rewrites the row's coordinates instead of looking the   *)
(* coordinates up.                                                         *)
LocationUpdateInPlace(locs, location, data, t) ==
    IF location = None THEN Result(locs, None, "AttributeError")
    ELSE
    LET old == Row(locs, location)
        new == [old EXCEPT !.coordinates = data.coordinates]
    IN Result(LocationSave(Replace(locs, old, new), location, data), location, "ok")

LocationUpdate(locs, location, data, t) ==
    IF location = None THEN Result(locs, None, "AttributeError")
    ELSE
    LET coords == data.coordinates IN
    IF CoordsDiffer(Row(locs, location), coords)
    THEN LET g == LocationGetOrCreate(locs, coords, t) IN
         IF g.err # "ok" THEN Result(locs, None, g.err)
         ELSE Result(LocationSave(g.rows, g.id, data), g.id, "ok")
    ELSE Result(LocationSave(locs, location, data), location, "ok")

-----------------------------------------------------------------------------
(* Device, User, Profile *)

NewDevice(devs, fcm_id, t) ==
    [id |-> FreshId(devs), fcm_id |-> fcm_id, is_active |-> TRUE,
     fails_count |-> 0, tx |-> t]

(* device.is_active = True; device.fails_count = 0; device.save() *)
Reactivate(device) == [device EXCEPT !.is_active = TRUE, !.fails_count = 0]

(* device.owner: the User whose device is this one. *)
DeviceOwner(usrs, device, t) ==
    LET owners == {u \in Visible(usrs, t) : u.device = device.id} IN
    IF owners = {} THEN None ELSE (CHOOSE u \in owners : TRUE).id

(* models.User.objects.create_user(device=device, **validated_data): the   *)
(* Account row, and the Profile created alongside it.                      *)
NewUser(usrs, device, validated_data, t) ==
    [id |-> FreshId(usrs), email |-> validated_data.email,
     password |-> validated_data.password, device |-> device.id, tx |-> t]

NewProfile(profs, user, t) ==
    [id |-> FreshId(profs), user |-> user.id, full_name |-> Blank,
     location |-> None, tx |-> t]

UserProfile(profs, user, t) ==
    CHOOSE q \in Visible(profs, t) : q.user = user

(* The Profile saved without the name. *)
KeepFullName(profile, full_name) == profile

(* user.profile.full_name = full_name; user.profile.save() *)
SetFullName(profile, full_name) == [profile EXCEPT !.full_name = full_name]

(* A registration that never takes the reactivation path. *)
NeverReactivates(created) == FALSE

(* if not created: the reactivation path. *)
ReactivationPath(created) == ~created

-----------------------------------------------------------------------------
(* The requests, one at a time: every handler runs to its end.             *)

Call(op, args, id, err) == [op |-> op, args |-> args, ret |-> id, err |-> err]

Idle == [op |-> "idle"]

Init ==
    /\ locations = {} /\ devices = {} /\ users = {}
    /\ profiles = {} /\ listings = {} /\ chats = {}
    /\ nullable \in BOOLEAN
    /\ last = Call("init", <<>>, None, "ok")
    /\ pc = [p \in Procs |-> "idle"]
    /\ req = [p \in Procs |-> Idle]

(* User.create.  raises names the statement of the new-device path that    *)
(* raises, if any; the atomic block then rolls everything back.            *)
UserCreateCall(fcm_id, full_name, validated_data, raises) ==
    LET found   == {d \in Visible(devices, Committed) : d.fcm_id = fcm_id}
        created == found = {}
        args    == [fcm_id |-> fcm_id, full_name |-> full_name,
                    email |-> validated_data.email,
                    password |-> validated_data.password]
    IN
    /\ UNCHANGED <<locations, listings, chats, nullable, pc, req>>
    /\ IF ReactivationPath(created)
       THEN LET device == CHOOSE d \in found : TRUE
                owner  == DeviceOwner(users, device, Committed)
            IN
            IF owner = None
            THEN /\ UNCHANGED <<devices, users, profiles>>
                 /\ last' = Call("User.create", args, None, "DoesNotExist")
            ELSE /\ devices' = Replace(devices, device, Reactivate(device))
                 /\ UNCHANGED <<users, profiles>>
                 /\ last' = Call("User.create", args, owner, "ok")
       ELSE IF raises # "none"
            THEN /\ UNCHANGED <<devices, users, profiles>>
                 /\ last' = Call("User.create", args, None, raises)
            ELSE LET device  == NewDevice(devices, fcm_id, Committed)
                     user    == NewUser(users, device, validated_data, Committed)
                     profile == NewProfile(profiles, user, Committed)
                 IN
                 /\ devices' = devices \cup {device}
                 /\ users' = users \cup {user}
                 /\ profiles' = profiles \cup {SetFullName(profile, full_name)}
                 /\ last' = Call("User.create", args, user.id, "ok")

(* Push delivery, outside this layer, counts a device's failures and may   *)
(* deactivate it.                                                          *)
PushFailure ==
    \E d \in devices, deactivate \in BOOLEAN :
        /\ d.fails_count < MaxFails
        /\ devices' = Replace(devices, d,
               [d EXCEPT !.fails_count = @ + 1,
                         !.is_active = IF deactivate THEN FALSE ELSE @])
        /\ last' = Call("push", <<>>, None, "ok")
        /\ UNCHANGED <<locations, users, profiles, listings, chats,
                       nullable, pc, req>>

Register ==
    \E fcm_id \in FcmIds, full_name \in Names,
       validated_data \in [email : Emails, password : Passwords],
       raises \in {"none", "create_user", "profile.save"} :
        UserCreateCall(fcm_id, full_name, validated_data, raises)

(* Location().create(data), called on its own. *)
LocationCreateCall(data) ==
    LET r == LocationCreate(locations, data, Committed) IN
    /\ locations' = r.rows
    /\ last' = Call("Location.create", data, r.id, r.err)
    /\ UNCHANGED <<devices, users, profiles, listings, chats, nullable, pc, req>>

(* Location().update(location, data), called on its own. *)
LocationUpdateCall(location, data) ==
    LET r == LocationUpdate(locations, location, data, Committed) IN
    /\ locations' = r.rows
    /\ last' = Call("Location.update", [location |-> location, data |-> data],
                    r.id, r.err)
    /\ UNCHANGED <<devices, users, profiles, listings, chats, nullable, pc, req>>

NewListing(lsts, title, location, t) ==
    [id |-> FreshId(lsts), title |-> title, location |-> location, tx |-> t]

(* Listing.create: the Location, then the Listing, in one atomic block. *)
ListingCreateCall(title, data, raises) ==
    LET r == LocationCreate(locations, data, Committed)
        args == [title |-> title, data |-> data]
    IN
    /\ Cardinality(listings) < MaxListings
    /\ UNCHANGED <<devices, users, profiles, chats, nullable, pc, req>>
    /\ IF r.err # "ok" \/ raises
       THEN /\ UNCHANGED <<locations, listings>>
            /\ last' = Call("Listing.create", args, None,
                            IF r.err # "ok" THEN r.err ELSE "IntegrityError")
       ELSE LET listing == NewListing(listings, title, r.id, Committed) IN
            /\ locations' = r.rows
            /\ listings' = listings \cup {listing}
            /\ last' = Call("Listing.create", args, listing.id, "ok")

(* ModelSerializer.update(listing, validated_data): the present fields. *)
ListingSave(listing, title) ==
    IF title = Absent THEN listing ELSE [listing EXCEPT !.title = title]

(* Listing.update *)
ListingUpdateCall(listing, title, data) ==
    LET args == [listing |-> listing.id, location |-> listing.location,
                 title |-> title, data |-> data] IN
    /\ UNCHANGED <<devices, users, profiles, chats, nullable, pc, req>>
    /\ IF Truthy(data)
       THEN LET r == LocationUpdate(locations, listing.location, data, Committed) IN
            IF r.err # "ok"
            THEN /\ UNCHANGED <<locations, listings>>
                 /\ last' = Call("Listing.update", args, None, r.err)
            ELSE /\ locations' = r.rows
                 /\ listings' = Replace(listings, listing,
                        ListingSave([listing EXCEPT !.location = r.id], title))
                 /\ last' = Call("Listing.update", args, listing.id, "ok")
       ELSE /\ UNCHANGED locations
            /\ listings' = Replace(listings, listing, ListingSave(listing, title))
            /\ last' = Call("Listing.update", args, listing.id, "ok")

(* ModelSerializer.update(profile, validated_data): the present fields. *)
ProfileSave(profile, full_name) ==
    IF full_name = Absent THEN profile ELSE [profile EXCEPT !.full_name = full_name]

(* Profile.update *)
ProfileUpdateCall(profile, full_name, data) ==
    LET args == [profile |-> profile.id, location |-> profile.location,
                 full_name |-> full_name, data |-> data] IN
    /\ UNCHANGED <<devices, users, listings, chats, nullable, pc, req>>
    /\ IF Truthy(data)
       THEN LET r == LocationUpdate(locations, profile.location, data, Committed) IN
            IF r.err # "ok"
            THEN /\ UNCHANGED <<locations, profiles>>
                 /\ last' = Call("Profile.update", args, None, r.err)
            ELSE /\ locations' = r.rows
                 /\ profiles' = Replace(profiles, profile,
                        ProfileSave([profile EXCEPT !.location = r.id], full_name))
                 /\ last' = Call("Profile.update", args, profile.id, "ok")
       ELSE /\ UNCHANGED locations
            /\ profiles' = Replace(profiles, profile, ProfileSave(profile, full_name))
            /\ last' = Call("Profile.update", args, profile.id, "ok")

-----------------------------------------------------------------------------
(* Chat *)

NewChat(chs, creator, interlocutor, listing, t) ==
    [id |-> FreshId(chs), creator |-> creator, interlocutor |-> interlocutor,
     listing |-> listing, subject |-> Blank, tx |-> t]

SameTriple(c, creator, interlocutor, listing) ==
    c.creator = creator /\ c.interlocutor = interlocutor /\ c.listing = listing

(* get_object_or_404(models.Profile, uuid=to_uuid).user *)
ProfileUser(profs, to_uuid) ==
    LET found == {q \in profs : q.id = to_uuid} IN
    IF found = {} THEN None ELSE (CHOOSE q \in found : TRUE).user

(* get_object_or_404(models.Listing, uuid=listing_uuid) *)
ListingByUuid(lsts, listing_uuid) == {l \in lsts : l.id = listing_uuid}

(* The subject written on every call. *)
AlwaysSetsSubject(created) == TRUE

(* if created: chat.subject = listing.title; chat.save() *)
SetsSubject(created) == created

SetSubject(chat, title) == [chat EXCEPT !.subject = title]

(* Chat.create *)
ChatCreateCall(creator, to_uuid, listing_uuid) ==
    LET args    == [creator |-> creator, to_uuid |-> to_uuid,
                    listing_uuid |-> listing_uuid]
        to_user == ProfileUser(Visible(profiles, Committed), to_uuid)
        lst     == ListingByUuid(Visible(listings, Committed), listing_uuid)
    IN
    /\ UNCHANGED <<locations, devices, users, profiles, listings, nullable, pc, req>>
    /\ IF to_user = None \/ lst = {}
       THEN /\ UNCHANGED chats
            /\ last' = Call("Chat.create", <<>>, None, "Http404")
       ELSE LET listing == CHOOSE l \in lst : TRUE
                found   == {c \in Visible(chats, Committed) :
                              SameTriple(c, creator, to_user, listing.id)}
                created == found = {}
                chat    == IF created
                           THEN NewChat(chats, creator, to_user, listing.id, Committed)
                           ELSE CHOOSE c \in found : TRUE
            IN
            /\ created => Cardinality(chats) < MaxChats
            /\ chats' = IF SetsSubject(created)
                        THEN Replace(chats, chat, SetSubject(chat, listing.title))
                        ELSE chats \cup {chat}
            /\ last' = Call("Chat.create", args, chat.id, "ok")

Uuids(rows) == {r.id : r \in rows} \cup {FreshId(rows)}

ChatCreateReq ==
    \E u \in users, to_uuid \in Uuids(profiles), listing_uuid \in Uuids(listings) :
        ChatCreateCall(u.id, to_uuid, listing_uuid)

CreateData == {d \in LocationData : d.coordinates # NoCoord}

OnePlace == [present |-> TRUE, coordinates |-> "1.0, 2.0", address |-> "Elm St"]

LocationCreateReq == \E data \in CreateData : LocationCreateCall(data)

LocationUpdateReq ==
    \E l \in locations, data \in LocationData : LocationUpdateCall(l.id, data)

ListingCreateReq(titles, payloads, raising) ==
    \E title \in titles, data \in payloads, raises \in raising :
        ListingCreateCall(title, data, raises)

ListingUpdateReq(titles, payloads) ==
    \E l \in listings, title \in titles, data \in payloads :
        ListingUpdateCall(l, title, data)

ProfileUpdateReq ==
    \E q \in profiles, full_name \in {Absent}, data \in LocationData \cup {NoPayload} :
        ProfileUpdateCall(q, full_name, data)

(* One registration's inputs: what the Location and Chat flows need of it  *)
(* is the Account and its Profile.                                         *)
RegisterAs(fcm_ids) ==
    \E fcm_id \in fcm_ids :
        UserCreateCall(fcm_id, "Ann", [email |-> "a@x", password |-> "pw1"], "none")

Next == Register \/ PushFailure

(* Whether Location.coordinates takes NULL bears on the Location flows    *)
(* alone.                                                                  *)
InitAccounts == Init /\ nullable

Spec == InitAccounts /\ [][Next]_vars

NextLoc ==
    \/ RegisterAs({"fcm1"})
    \/ LocationCreateReq
    \/ LocationUpdateReq
    \/ ListingCreateReq({"bike"}, CreateData, BOOLEAN)
    \/ ListingUpdateReq({Absent}, LocationData \cup {NoPayload})
    \/ ProfileUpdateReq

LocSpec == Init /\ [][NextLoc]_vars

NextChat ==
    \/ RegisterAs(FcmIds)
    \/ ListingCreateReq(Titles, {OnePlace}, {FALSE})
    \/ ListingUpdateReq(Titles, {NoPayload})
    \/ ChatCreateReq

ChatSpec == InitAccounts /\ [][NextChat]_vars

-----------------------------------------------------------------------------
(* Requests running concurrently.  User.create runs in one transaction    *)
(* (with transaction.atomic()); Chat.create opens none, so each of its     *)
(* statements commits as it runs.                                          *)

(* Leaving the atomic block normally: the block's rows are committed. *)
AtomicCommit(rows, t) ==
    {IF r.tx = t THEN [r EXCEPT !.tx = Committed] ELSE r : r \in rows}

(* A block that undoes nothing when an exception leaves it. *)
NoRollback(rows, t) == AtomicCommit(rows, t)

(* Leaving the atomic block by an exception: the block's rows are gone. *)
AtomicRollback(rows, t) == {r \in rows : r.tx # t}

(* The uniqueness constraint on the key makes an insert wait while another *)
(* transaction holds an uncommitted row of the same key.                   *)
HeldByOther(matching, t) == \E r \in matching : r.tx \notin {Committed, t}

SetReq(p, r) == req' = [req EXCEPT ![p] = r]
Goto(p, label) == pc' = [pc EXCEPT ![p] = label]

Raise(p, err) ==
    /\ devices' = AtomicRollback(devices, p)
    /\ users' = AtomicRollback(users, p)
    /\ profiles' = AtomicRollback(profiles, p)
    /\ SetReq(p, [req[p] EXCEPT !.err = err])
    /\ Goto(p, "done")

(* User.create is entered: fcm_id and full_name are popped. *)
UC_Begin(p, fcm_id, full_name, validated_data) ==
    /\ pc[p] = "idle"
    /\ SetReq(p, [op |-> "User.create", fcm_id |-> fcm_id, full_name |-> full_name,
                  validated_data |-> validated_data, created |-> FALSE,
                  raced |-> FALSE, device |-> None, user |-> None,
                  ret |-> None, err |-> "ok"])
    /\ Goto(p, "uc_get")
    /\ UNCHANGED <<tables, nullable, last>>

(* get_or_create: the lookup. *)
UC_Get(p) ==
    /\ pc[p] = "uc_get"
    /\ LET found == {d \in Visible(devices, p) : d.fcm_id = req[p].fcm_id} IN
       IF found # {}
       THEN /\ SetReq(p, [req[p] EXCEPT !.device = (CHOOSE d \in found : TRUE).id])
            /\ Goto(p, IF ReactivationPath(FALSE) THEN "uc_reactivate"
                       ELSE "uc_create_user")
       ELSE /\ Goto(p, "uc_insert")
            /\ UNCHANGED req
    /\ UNCHANGED <<tables, nullable, last>>

(* A plain create after the lookup: the IntegrityError of a lost race     *)
(* leaves the request.                                                     *)
UC_InsertOnce(p) ==
    /\ pc[p] = "uc_insert"
    /\ LET same == {d \in devices : d.fcm_id = req[p].fcm_id}
           seen == Visible(same, p)
       IN
       /\ ~HeldByOther(same, p)
       /\ IF seen # {}
          THEN /\ SetReq(p, [req[p] EXCEPT !.raced = TRUE, !.err = "IntegrityError"])
               /\ Goto(p, "done")
               /\ UNCHANGED devices
          ELSE LET device == NewDevice(devices, req[p].fcm_id, p) IN
               /\ devices' = devices \cup {device}
               /\ SetReq(p, [req[p] EXCEPT !.device = device.id, !.created = TRUE])
               /\ Goto(p, "uc_create_user")
    /\ UNCHANGED <<locations, users, profiles, listings, chats, nullable, last>>

(* get_or_create: the insert after a lookup that found nothing; on an     *)
(* IntegrityError the lookup is repeated.                                  *)
UC_Insert(p) ==
    /\ pc[p] = "uc_insert"
    /\ LET same == {d \in devices : d.fcm_id = req[p].fcm_id}
           seen == Visible(same, p)
       IN
       /\ ~HeldByOther(same, p)
       /\ IF seen # {}
          THEN /\ SetReq(p, [req[p] EXCEPT !.device = (CHOOSE d \in seen : TRUE).id,
                                           !.raced = TRUE])
               /\ Goto(p, IF ReactivationPath(FALSE) THEN "uc_reactivate"
                          ELSE "uc_create_user")
               /\ UNCHANGED devices
          ELSE LET device == NewDevice(devices, req[p].fcm_id, p) IN
               /\ devices' = devices \cup {device}
               /\ SetReq(p, [req[p] EXCEPT !.device = device.id, !.created = TRUE])
               /\ Goto(p, IF ReactivationPath(TRUE) THEN "uc_reactivate"
                          ELSE "uc_create_user")
    /\ UNCHANGED <<locations, users, profiles, listings, chats, nullable, last>>

(* The reactivation path, to its return. *)
UC_Reactivate(p) ==
    /\ pc[p] = "uc_reactivate"
    /\ LET device == Row(Visible(devices, p), req[p].device)
           owner  == DeviceOwner(users, device, p)
       IN
       IF owner = None
       THEN Raise(p, "DoesNotExist")
       ELSE /\ devices' = AtomicCommit(Replace(devices, device, Reactivate(device)), p)
            /\ users' = AtomicCommit(users, p)
            /\ profiles' = AtomicCommit(profiles, p)
            /\ SetReq(p, [req[p] EXCEPT !.ret = owner])
            /\ Goto(p, "done")
    /\ UNCHANGED <<locations, listings, chats, nullable, last>>

(* models.User.objects.create_user(device=device, **validated_data) *)
UC_CreateUser(p, raises) ==
    /\ pc[p] = "uc_create_user"
    /\ IF raises
       THEN Raise(p, "create_user")
       ELSE LET device  == Row(Visible(devices, p), req[p].device)
                user    == NewUser(users, device, req[p].validated_data, p)
                profile == NewProfile(profiles, user, p)
            IN
            /\ users' = users \cup {user}
            /\ profiles' = profiles \cup {profile}
            /\ SetReq(p, [req[p] EXCEPT !.user = user.id])
            /\ Goto(p, "uc_profile")
            /\ UNCHANGED devices
    /\ UNCHANGED <<locations, listings, chats, nullable, last>>

(* user.profile.full_name = full_name; user.profile.save(); return user *)
UC_SaveProfile(p, raises) ==
    /\ pc[p] = "uc_profile"
    /\ IF raises
       THEN Raise(p, "profile.save")
       ELSE LET profile == UserProfile(profiles, req[p].user, p) IN
            /\ profiles' = AtomicCommit(Replace(profiles, profile,
                               SetFullName(profile, req[p].full_name)), p)
            /\ devices' = AtomicCommit(devices, p)
            /\ users' = AtomicCommit(users, p)
            /\ SetReq(p, [req[p] EXCEPT !.ret = req[p].user])
            /\ Goto(p, "done")
    /\ UNCHANGED <<locations, listings, chats, nullable, last>>

(* The response is sent. *)
Finish(p) ==
    /\ pc[p] = "done"
    /\ SetReq(p, Idle)
    /\ Goto(p, "idle")
    /\ UNCHANGED <<tables, nullable, last>>

InFlight(op) == Cardinality({p \in Procs : pc[p] # "idle" /\ req[p].op = op})

(* Chat.create is entered: the creator, the target user and the listing. *)
CC_Begin(p, creator, to_uuid, listing_uuid) ==
    LET to_user == ProfileUser(Visible(profiles, p), to_uuid)
        lst     == ListingByUuid(Visible(listings, p), listing_uuid)
        r       == [op |-> "Chat.create", creator |-> creator,
                    interlocutor |-> to_user, listing |-> listing_uuid,
                    title |-> Blank, created |-> FALSE, raced |-> FALSE,
                    subject |-> Blank, ret |-> None, err |-> "ok"]
    IN
    /\ pc[p] = "idle"
    /\ Cardinality(chats) + InFlight("Chat.create") < MaxChats
    /\ IF to_user = None \/ lst = {}
       THEN /\ SetReq(p, [r EXCEPT !.err = "Http404"])
            /\ Goto(p, "done")
       ELSE /\ SetReq(p, [r EXCEPT !.title = (CHOOSE l \in lst : TRUE).title])
            /\ Goto(p, "cc_get")
    /\ UNCHANGED <<tables, nullable, last>>

Found(p) ==
    {c \in Visible(chats, p) :
        SameTriple(c, req[p].creator, req[p].interlocutor, req[p].listing)}

Fetched(p, chat, raced) ==
    /\ SetReq(p, [req[p] EXCEPT !.ret = chat.id, !.subject = chat.subject,
                                !.raced = raced])
    /\ Goto(p, IF SetsSubject(FALSE) THEN "cc_save" ELSE "done")

(* get_or_create: the lookup. *)
CC_Get(p) ==
    /\ pc[p] = "cc_get"
    /\ IF Found(p) # {}
       THEN Fetched(p, CHOOSE c \in Found(p) : TRUE, FALSE)
       ELSE /\ Goto(p, "cc_insert")
            /\ UNCHANGED req
    /\ UNCHANGED <<tables, nullable, last>>

(* get_or_create: the insert after a lookup that found nothing; on an     *)
(* IntegrityError the lookup is repeated.                                  *)
CC_Insert(p) ==
    /\ pc[p] = "cc_insert"
    /\ IF Found(p) # {}
       THEN /\ Fetched(p, CHOOSE c \in Found(p) : TRUE, TRUE)
            /\ UNCHANGED chats
       ELSE LET chat == NewChat(chats, req[p].creator, req[p].interlocutor,
                                req[p].listing, Committed)
            IN
            /\ chats' = chats \cup {chat}
            /\ SetReq(p, [req[p] EXCEPT !.ret = chat.id, !.created = TRUE])
            /\ Goto(p, IF SetsSubject(TRUE) THEN "cc_save" ELSE "done")
    /\ UNCHANGED <<locations, devices, users, profiles, listings, nullable, last>>

(* chat.subject = listing.title; chat.save(); return chat *)
CC_Save(p) ==
    /\ pc[p] = "cc_save"
    /\ LET chat == Row(chats, req[p].ret) IN
       /\ chats' = Replace(chats, chat, SetSubject(chat, req[p].title))
       /\ SetReq(p, [req[p] EXCEPT !.subject = req[p].title])
    /\ Goto(p, "done")
    /\ UNCHANGED <<locations, devices, users, profiles, listings, nullable, last>>

UserSteps(p) ==
    \/ UC_Get(p)
    \/ UC_Insert(p)
    \/ UC_Reactivate(p)
    \/ \E raises \in BOOLEAN : UC_CreateUser(p, raises)
    \/ \E raises \in BOOLEAN : UC_SaveProfile(p, raises)

ChatSteps(p) ==
    \/ \E u \in Visible(users, Committed),
          to_uuid \in Uuids(profiles), listing_uuid \in Uuids(listings) :
          CC_Begin(p, u.id, to_uuid, listing_uuid)
    \/ CC_Get(p)
    \/ CC_Insert(p)
    \/ CC_Save(p)

(* Concurrent registrations. *)
NextUserConc ==
    \E p \in Procs :
        \/ \E fcm_id \in FcmIds, full_name \in Names,
              validated_data \in [email : Emails, password : {"pw1"}] :
              UC_Begin(p, fcm_id, full_name, validated_data)
        \/ UserSteps(p)
        \/ Finish(p)

UserConcSpec == InitAccounts /\ [][NextUserConc]_vars

(* Concurrent Chat.create calls, between registered Accounts. *)
NextChatConc ==
    \/ RegisterAs(FcmIds)
    \/ ListingCreateReq({"bike"}, {OnePlace}, {FALSE})
    \/ \E p \in Procs : ChatSteps(p) \/ Finish(p)

ChatConcSpec == InitAccounts /\ [][NextChatConc]_vars

(* Both flows, concurrently. *)
NextConc ==
    \/ ListingCreateReq({"bike"}, {OnePlace}, {FALSE})
    \/ \E p \in Procs :
          \/ \E fcm_id \in FcmIds :
                UC_Begin(p, fcm_id, "Ann", [email |-> "a@x", password |-> "pw1"])
          \/ UserSteps(p)
          \/ ChatSteps(p)
          \/ Finish(p)

ConcSpec == InitAccounts /\ [][NextConc]_vars

-----------------------------------------------------------------------------
(* Properties of the requests run one at a time. *)

Bound(devs, usrs, fcm_id) ==
    {d \in devs : d.fcm_id = fcm_id /\ DeviceOwner(usrs, d, Committed) # None}

(* C1: User.create with a device token already bound to Account A returns  *)
(* A and creates no Account: the Accounts and Profiles are as before, and  *)
(* the only change is the Device marked active with fails_count 0.         *)
C1_BoundTokenReturnsAccount ==
    [][last'.op = "User.create" =>
         \A d \in Bound(devices, users, last'.args.fcm_id) :
            /\ last'.err = "ok"
            /\ last'.ret = DeviceOwner(users, d, Committed)
            /\ users' = users
            /\ profiles' = profiles
            /\ devices' = Replace(devices, d,
                   [d EXCEPT !.is_active = TRUE, !.fails_count = 0])
            /\ UNCHANGED <<locations, listings, chats>>]_vars

(* A bound token was presented with another email, password and name, and *)
(* the call returned the Account of the token's Device.                    *)
C1_Witness ==
    /\ last.op = "User.create" /\ last.err = "ok"
    /\ \E u \in users, q \in profiles, d \in devices :
          /\ u.id = last.ret /\ q.user = u.id /\ d.id = u.device
          /\ u.email # last.args.email
          /\ u.password # last.args.password
          /\ q.full_name # last.args.full_name
          /\ d.is_active /\ d.fails_count = 0

UniqueCoordinates ==
    \A a, b \in locations :
        (a.coordinates = b.coordinates \/ a.id = b.id) => a = b

(* C3: there is at most one Location per coordinate value in every state,  *)
(* and a create (Location.create, or Listing.create's) returns the record  *)
(* of its coordinates: the existing one when there is one.                 *)
C3_OneLocationPerCoordinate ==
    /\ []UniqueCoordinates
    /\ [][(last'.op = "Location.create" /\ last'.err = "ok") =>
            /\ Row(locations', last'.ret).coordinates = last'.args.coordinates
            /\ \A l \in locations :
                  l.coordinates = last'.args.coordinates => last'.ret = l.id]_vars
    /\ [][(last'.op = "Listing.create" /\ last'.err = "ok") =>
            LET loc == Row(listings', last'.ret).location IN
            /\ Row(locations', loc).coordinates = last'.args.data.coordinates
            /\ \A l \in locations :
                  l.coordinates = last'.args.data.coordinates => loc = l.id]_vars

(* Location.create returned a record that a Listing already references,   *)
(* next to a record of other coordinates.                                  *)
C3_Witness ==
    /\ last.op = "Location.create" /\ last.err = "ok"
    /\ Cardinality(locations) >= 2
    /\ \E l \in listings : l.location = last.ret

(* C5: Location.update with data that holds no coordinate returns the     *)
(* record passed in, sets its other fields in place, and neither creates   *)
(* nor looks up another Location.                                          *)
C5_NoCoordinateUpdatesInPlace ==
    [][(last'.op = "Location.update"
          /\ last'.args.data.coordinates = NoCoord) =>
         LET old == Row(locations, last'.args.location)
             adr == last'.args.data.address
         IN
         /\ last'.err = "ok"
         /\ last'.ret = old.id
         /\ locations' = Replace(locations, old,
                [old EXCEPT !.address = IF adr = Absent THEN @ ELSE adr])]_vars

(* C6: Listing.update with a location payload whose coordinates differ    *)
(* from the Listing's leaves the Listing on another Location record; with  *)
(* no location in the input, the reference and the record stay as they     *)
(* were.                                                                   *)
C6_ListingUpdateLocation ==
    [][last'.op = "Listing.update" =>
         LET data == last'.args.data
             old  == Row(locations, last'.args.location)
             new  == Row(listings', last'.args.listing)
         IN
         /\ (data.present /\ data.coordinates \in Coords
               /\ data.coordinates # old.coordinates) =>
                /\ last'.err = "ok"
                /\ new.location # old.id
                /\ Row(locations', new.location).coordinates = data.coordinates
         /\ ~data.present =>
                /\ new.location = old.id
                /\ locations' = locations]_vars

(* A Listing was moved to other coordinates. *)
C6_Witness ==
    /\ last.op = "Listing.update" /\ last.err = "ok"
    /\ last.args.data.present /\ last.args.data.coordinates \in Coords
    /\ \E l \in listings :
          /\ l.id = last.args.listing
          /\ l.location # last.args.location
          /\ \E old \in locations : old.id = last.args.location

(* C8: Profile.update with a location payload on a Profile that has no    *)
(* Location completes without error and leaves the Profile on the Location *)
(* of the payload's coordinates, the payload's other fields applied.       *)
C8_ProfileWithoutLocation ==
    [][(last'.op = "Profile.update" /\ last'.args.location = None
          /\ last'.args.data.present
          /\ last'.args.data.coordinates \in Coords) =>
         LET data == last'.args.data
             new  == Row(profiles', last'.args.profile)
         IN
         /\ last'.err = "ok"
         /\ new.location # None
         /\ Row(locations', new.location).coordinates = data.coordinates
         /\ data.address # Absent =>
               Row(locations', new.location).address = data.address]_vars

UniqueTriples ==
    \A a, b \in chats :
        (SameTriple(a, b.creator, b.interlocutor, b.listing) \/ a.id = b.id)
            => a = b

(* C2: there is at most one Chat per (creator, interlocutor, listing);    *)
(* a call for a triple that has a Chat returns it and writes nothing, and  *)
(* the call that creates the Chat sets its subject to the listing's title. *)
C2_ChatCreateIdempotent ==
    /\ []UniqueTriples
    /\ [][(last'.op = "Chat.create" /\ last'.err = "ok") =>
            LET a     == last'.args
                to    == ProfileUser(profiles, a.to_uuid)
                l     == Row(listings, a.listing_uuid)
                found == {c \in chats : SameTriple(c, a.creator, to, l.id)}
                chat  == Row(chats', last'.ret)
            IN
            /\ SameTriple(chat, a.creator, to, l.id)
            /\ found # {} => chat \in found /\ chats' = chats
            /\ found = {} => chats' = chats \cup {chat}
                             /\ chat.subject = l.title]_vars
    /\ [][chats \subseteq chats']_vars

(* Chat.create returned a Chat whose subject is no longer its listing's   *)
(* title.                                                                  *)
C2_Witness ==
    /\ last.op = "Chat.create" /\ last.err = "ok"
    /\ \E c \in chats, l \in listings :
          c.id = last.ret /\ l.id = c.listing /\ c.subject # l.title

-----------------------------------------------------------------------------
(* Properties of the requests running concurrently. *)

Done(p, op) == pc[p] = "done" /\ req[p].op = op

AccountsComplete ==
    \A u \in users :
        /\ \E d \in Visible(devices, u.tx) : d.id = u.device
        /\ \E q \in Visible(profiles, u.tx) : q.user = u.id

(* C4: every Account has a Device and a Profile; a User.create that finds *)
(* no Device of its token takes the new-device path, and on its return     *)
(* there is exactly one new Account, bound to a new Device of that token,  *)
(* whose Profile carries the submitted full name.                          *)
C4_AccountHasDeviceAndProfile ==
    /\ []AccountsComplete
    /\ [][\A p \in Procs :
            (pc[p] = "uc_insert" /\ pc'[p] # "uc_insert"
               /\ ~\E d \in Visible(devices, p) : d.fcm_id = req[p].fcm_id) =>
                /\ pc'[p] = "uc_create_user"
                /\ \E d \in devices' \ devices :
                      d.id = req'[p].device /\ d.fcm_id = req[p].fcm_id]_vars
    /\ [][\A p \in Procs :
            (pc[p] = "uc_profile" /\ pc'[p] = "done" /\ req'[p].err = "ok") =>
                LET dev(rows) == Visible(rows, Committed)
                    new == dev(users') \ dev(users)
                IN
                /\ Cardinality(new) = 1
                /\ Cardinality(dev(devices') \ dev(devices)) = 1
                /\ Cardinality(dev(profiles') \ dev(profiles)) = 1
                /\ \A u \in new :
                      /\ u.id = req'[p].ret
                      /\ u.email = req[p].validated_data.email
                      /\ \E d \in dev(devices') \ dev(devices) :
                            d.id = u.device /\ d.fcm_id = req[p].fcm_id
                      /\ \E q \in dev(profiles') \ dev(profiles) :
                            q.user = u.id /\ q.full_name = req[p].full_name]_vars

(* A registration returned the Account it created, next to the Account of *)
(* another Device.                                                         *)
C4_Witness ==
    \E p \in Procs :
        /\ Done(p, "User.create") /\ req[p].created /\ req[p].err = "ok"
        /\ Cardinality(Visible(users, Committed)) = 2
        /\ \E q \in Visible(profiles, Committed) :
              q.user = req[p].ret /\ q.full_name = req[p].full_name

UniqueDevices ==
    /\ \A a, b \in devices : (a.fcm_id = b.fcm_id \/ a.id = b.id) => a = b
    /\ \A a, b \in users : (a.device = b.device \/ a.id = b.id) => a = b

(* C7: no interleaving of requests leaves two Devices, or two Accounts,   *)
(* of one token, or two Chats of one triple; a request that lost the race  *)
(* for its key still returns, and every User.create returns the one        *)
(* Account of its token, every Chat.create the one Chat of its triple.     *)
C7_NoDuplicateRows ==
    /\ UniqueDevices
    /\ UniqueTriples
    /\ \A p \in Procs :
          /\ (pc[p] = "done" /\ req[p].raced) => req[p].err = "ok"
          /\ (Done(p, "User.create") /\ req[p].err = "ok") =>
                \E d \in Visible(devices, Committed), u \in Visible(users, Committed) :
                    /\ d.fcm_id = req[p].fcm_id
                    /\ u.device = d.id
                    /\ u.id = req[p].ret
          /\ (Done(p, "Chat.create") /\ req[p].err = "ok") =>
                \E c \in chats :
                    /\ c.id = req[p].ret
                    /\ SameTriple(c, req[p].creator, req[p].interlocutor,
                                  req[p].listing)

(* Two User.create calls of one token raced: one created the Device, the  *)
(* other's insert met the uniqueness constraint, and both returned.        *)
C7_Witness ==
    \E p, q \in Procs :
        /\ Done(p, "User.create") /\ Done(q, "User.create")
        /\ req[p].fcm_id = req[q].fcm_id
        /\ req[p].created /\ req[q].raced
        /\ req[p].err = "ok" /\ req[q].err = "ok"
        /\ req[p].ret = req[q].ret

(* Two Chat.create calls of one triple raced, and both returned. *)
ChatRace ==
    \E p, q \in Procs :
        /\ Done(p, "Chat.create") /\ Done(q, "Chat.create")
        /\ req[p].created /\ req[q].raced
        /\ req[p].ret = req[q].ret

(* C9: every Chat that Chat.create returns has its subject set to the     *)
(* listing's title, also when another call is creating that Chat.          *)
C9_ReturnedChatHasSubject ==
    \A p \in Procs :
        (Done(p, "Chat.create") /\ req[p].err = "ok") =>
            req[p].subject = req[p].title

NoOrphanDevice ==
    \A d \in Visible(devices, Committed) :
        \E u \in Visible(users, Committed) : u.device = d.id

(* C10: a User.create that raises after it created the Device leaves no   *)
(* Device of its token, no committed Device is without an owning Account,  *)
(* and the reactivation path is never entered for a Device with no owner.  *)
C10_FailedRegistrationRolledBack ==
    /\ []NoOrphanDevice
    /\ [][\A p \in Procs :
            (pc[p] \in {"uc_create_user", "uc_profile"} /\ pc'[p] = "done"
               /\ req'[p].err # "ok") =>
                ~\E d \in devices' : d.fcm_id = req[p].fcm_id]_vars
    /\ [][\A p \in Procs :
            (pc[p] # "uc_reactivate" /\ pc'[p] = "uc_reactivate") =>
                \E u \in Visible(users', Committed) : u.device = req'[p].device]_vars

(* A registration failed after it created the Device, and a later         *)
(* registration of the same token created the Device anew.                 *)
C10_Witness ==
    \E p, q \in Procs :
        /\ Done(p, "User.create") /\ Done(q, "User.create")
        /\ req[p].fcm_id = req[q].fcm_id
        /\ req[p].created /\ req[p].err \in {"create_user", "profile.save"}
        /\ req[q].created /\ req[q].err = "ok"

=============================================================================
